---- MODULE Spec2Model ----
(***************************************************************************)
(* Entitlement lifecycle of the VPN user bot (src/user-bot/vpn_bot_user.py) *)
(* and the admin bot's revoke path (src/admin-bot/vpn_bot_admin.py):        *)
(* the sqlite store (users, subscriptions, promo_codes), the client files   *)
(* kept by the provisioning script, the update handlers, the periodic       *)
(* expiry job and the admin commands.                                       *)
(*                                                                          *)
(* Every handler is cut at its store statements and at its awaits on the    *)
(* provisioning script, the places where another handler, the expiry job    *)
(* or the admin bot (a separate process on the same database) can run.      *)
(* Optional values (a fetched row or None) are sets with at most one        *)
(* element.                                                                 *)
(*                                                                          *)
(* The support bot (src/support-bot/vpn_bot_support.py) is a third process  *)
(* with a store of its own (tickets, messages) and the in-memory            *)
(* REPLY_AWAIT map; an update goes to the first registered handler whose    *)
(* filter accepts it.                                                       *)
(***************************************************************************)
EXTENDS Integers, Sequences, FiniteSets, TLC

\* ---------------------------------------------------------------- bounds
NumUsers == 2
NumReqs == 2
MaxSubs == 2
MaxDays == 1
MaxUses == 2
MaxPromoDays == 2
MaxTickets == 2
MaxMsgs == 3

\* ------------------------------------------------------ program constants
DaySeconds == 86400

TgIds == 1..NumUsers
Reqs == 1..NumReqs
Codes == {"WELCOME10"}
TxIds == {"ch_1"}
MaxNow == MaxDays * DaySeconds

\* PLANS: plan key -> payload and duration_days
PLANS == [month   |-> [payload |-> "plan_month",   duration_days |-> 30],
          quarter |-> [payload |-> "plan_quarter", duration_days |-> 90],
          year    |-> [payload |-> "plan_year",    duration_days |-> 365]]

\* invoice payloads a successful-payment update is modelled to carry
Payloads == {"plan_month", "plan_other"}

\* integer arguments the admin is modelled to type after /addpromo CODE
DaysArgs == 0..MaxPromoDays
MaxUsesArgs == -1..MaxUses

VARIABLES
    now,            \* time.time(), whole seconds
    users,          \* table users: set of rows
    subscriptions,  \* table subscriptions: sequence of rows, id = index
    promo_codes,    \* table promo_codes: set of rows, key code
    conf_files,     \* client names whose .conf exists
    expires_at,     \* vpn user -> content of its expires_at file, as the
                    \* user bot last wrote it
    pc,             \* handler slot -> position in its handler
    loc,            \* handler slot -> the handler's local variables
    jpc,            \* position of job_expiry_check
    victims,        \* job_expiry_check: victims not yet handled
    apc,            \* admin bot cmd_revoke: position
    a_tg,           \* admin bot cmd_revoke: identity being revoked
    PAY_TEST_ZERO,  \* user bot configuration: the PAY_TEST_ZERO switch
    tickets,        \* support bot, table tickets: sequence of rows, id = index
    messages,       \* support bot, table messages: sequence of rows
    REPLY_AWAIT     \* support bot: staff id -> ticket awaiting a reply text

vars == <<now, users, subscriptions, promo_codes, conf_files, expires_at,
          pc, loc, jpc, victims, apc, a_tg,
          PAY_TEST_ZERO, tickets, messages, REPLY_AWAIT>>

store == <<users, subscriptions, promo_codes>>
files == <<conf_files, expires_at>>
job == <<jpc, victims>>
admin == <<apc, a_tg>>
config == <<PAY_TEST_ZERO>>
support == <<tickets, messages, REPLY_AWAIT>>

\* --------------------------------------------------------------- helpers
ensure_vpn_username(tg_id) == <<"u", tg_id>>

VpnUsers == {ensure_vpn_username(t) : t \in TgIds}

Ids == 1..Len(subscriptions)

\* a status UPDATE that also cuts the period's end to the current time
SetStatusAndEnd(subs, ids, st) ==
    [i \in 1..Len(subs) |-> IF i \in ids
                             THEN [subs[i] EXCEPT !.status = st, !.end_ts = now]
                             ELSE subs[i]]

\* UPDATE subscriptions SET status=st on the rows ids
SetStatus(subs, ids, st) ==
    [i \in 1..Len(subs) |-> IF i \in ids THEN [subs[i] EXCEPT !.status = st]
                                       ELSE subs[i]]

\* db_get_active_sub without end_ts>? in its WHERE clause
ActiveSubIdsAnyEnd(subs, tg_id, ts) ==
    LET live == {i \in 1..Len(subs) : /\ subs[i].tg_id = tg_id
                                      /\ subs[i].status = "active"}
    IN {i \in live : \A j \in live : subs[j].end_ts <= subs[i].end_ts}

\* db_get_active_sub: ids of the rows the query may return at time ts
\* (ORDER BY end_ts DESC LIMIT 1; rows with equal end_ts are not ordered).
ActiveSubIdsAt(subs, tg_id, ts) ==
    LET live == {i \in 1..Len(subs) : /\ subs[i].tg_id = tg_id
                                      /\ subs[i].status = "active"
                                      /\ subs[i].end_ts > ts}
    IN {i \in live : \A j \in live : subs[j].end_ts <= subs[i].end_ts}

db_get_active_sub(subs, tg_id, ts) == {subs[i] : i \in ActiveSubIdsAt(subs, tg_id, ts)}

\* db_upsert_user as INSERT OR REPLACE: the row of an existing tg_id is
\* written anew
db_upsert_user_replace(tg_id, tg_username) ==
    {u \in users : u.tg_id # tg_id} \cup
        {[tg_id |-> tg_id, tg_username |-> tg_username,
          vpn_user |-> ensure_vpn_username(tg_id), created_at |-> now]}

\* db_upsert_user: INSERT ... ON CONFLICT(tg_id) DO UPDATE SET tg_username;
\* a None tg_username is stored as ""
db_upsert_user(tg_id, tg_username) ==
    IF \E u \in users : u.tg_id = tg_id
    THEN {IF u.tg_id = tg_id THEN [u EXCEPT !.tg_username = tg_username] ELSE u :
             u \in users}
    ELSE users \cup {[tg_id |-> tg_id, tg_username |-> tg_username,
                      vpn_user |-> ensure_vpn_username(tg_id), created_at |-> now]}

\* db_get_user
db_get_user(tg_id) == {u \in users : u.tg_id = tg_id}

\* update.effective_user.username of the accounts whose /status, /myvpn and
\* get: updates are modelled: they have no username set (None, stored as "");
\* /start is modelled with every username of Usernames
NoUsername == ""

Usernames == {"", "alice"}

\* no expires_at file has been written
NoMarkers == [v \in VpnUsers |-> {}]

db_get_promo(code) == {p \in promo_codes : p.code = code}

\* db_all_expired_to_revoke: JOIN users, GROUP BY tg_id
db_all_expired_to_revoke ==
    {t \in TgIds : /\ \E u \in users : u.tg_id = t
                   /\ \E i \in Ids : /\ subscriptions[i].tg_id = t
                                     /\ subscriptions[i].status = "active"
                                     /\ subscriptions[i].end_ts <= now}

\* rows of tg_id the UPDATE ... WHERE status='active' touches
ActiveIdsOf(tg_id) ==
    {i \in Ids : subscriptions[i].tg_id = tg_id /\ subscriptions[i].status = "active"}

\* rows the UPDATE in db_create_or_extend_sub touches
StaleIdsOf(tg_id, ts) ==
    {i \in ActiveIdsOf(tg_id) : subscriptions[i].end_ts <= ts}

SetToSeq(S) ==
    LET RECURSIVE Build(_)
        Build(T) == IF T = {} THEN <<>>
                    ELSE LET m == CHOOSE x \in T : \A y \in T : x <= y
                         IN <<m>> \o Build(T \ {m})
    IN Build(S)

\* the local variables of a handler slot; a slot that is not running keeps
\* only how its last handler ended
NoLoc == [cmd |-> "none", tg_id |-> 0, code |-> "", row |-> {},
          duration_days |-> 0, plan_key |-> "", promo_code |-> "", tx_id |-> "",
          now |-> 0, cur_active |-> {}, active |-> {}, result |-> "none"]

Return(result) == [NoLoc EXCEPT !.result = result]

\* Application.process_update: the user bot is built without
\* concurrent_updates, so it runs one update handler at a time, in slot 1
Sequential(r) == r = 1

\* The handlers and the expiry job of the user bot share one asyncio event
\* loop: the job and the clock (a day per step) get their turn only while
\* no handler is between two awaits, inside its run of store statements.
Yielded == \A r \in Reqs : pc[r] \in {"done", "provision"}

\* ---------------------------------------------- support bot: its state
\* ADMIN_IDS of the support bot: the staff
ADMIN_IDS == {1}

\* the support database is empty and no reply is awaited
SupportInit ==
    /\ tickets = <<>>
    /\ messages = <<>>
    /\ REPLY_AWAIT = [a \in ADMIN_IDS |-> {}]

\* ------------------------------------------------------------------ Init
Init ==
    /\ now = 0
    /\ users = {}
    /\ subscriptions = <<>>
    /\ promo_codes = {}
    /\ conf_files = {}
    /\ expires_at = NoMarkers
    /\ pc = [r \in Reqs |-> "done"]
    /\ loc = [r \in Reqs |-> NoLoc]
    /\ jpc = "idle"
    /\ victims = <<>>
    /\ apc = "idle"
    /\ a_tg = 0
    /\ PAY_TEST_ZERO = TRUE
    /\ SupportInit

\* ------------------------------------------------------------ the clock
\* Time passes, one day at a time up to the modelled horizon.
Tick ==
    /\ Yielded
    /\ now + DaySeconds <= MaxNow
    /\ now' = now + DaySeconds
    /\ UNCHANGED <<store, files, pc, loc, job, admin, config, support>>

\* room left in the modelled subscriptions table for one more grant
InFlight == Cardinality({r \in Reqs : pc[r] \in {"consume", "grant", "write"}})

Room == Len(subscriptions) + InFlight < MaxSubs

\* ------------------------------------------------- /redeem: cmd_redeem
\* db_consume_promo testing the fetched row with > instead of >=
ExhaustedOffByOne(row) == \E p \in row : p.used_count > p.max_uses

\* db_consume_promo, the test of the fetched row before the UPDATE
Exhausted(row) == \E p \in row : p.used_count >= p.max_uses

\* what cmd_redeem tells the user when db_consume_promo returns None for
\* the fetched row (no row, or a row at its cap): one and the same reply,
\* "code invalid or exhausted"
RejectReply(row) == "rejected"

\* db_consume_promo, the SELECT and its two early returns
RedeemSelect(r, tg_id, code) ==
    /\ pc[r] = "done"
    /\ LET row == db_get_promo(code) IN
       IF row = {} \/ Exhausted(row)
       THEN /\ pc' = [pc EXCEPT ![r] = "done"]
            /\ loc' = [loc EXCEPT ![r] = Return(RejectReply(row))]
       ELSE /\ Room
            /\ pc' = [pc EXCEPT ![r] = "consume"]
            /\ loc' = [loc EXCEPT ![r] = [NoLoc EXCEPT !.cmd = "redeem",
                           !.tg_id = tg_id, !.code = code, !.row = row]]
    /\ UNCHANGED <<now, store, files, job, admin, config, support>>

\* db_consume_promo with the cap left out of the UPDATE's WHERE clause
ConsumeMatchNoCap(code) == {p \in promo_codes : p.code = code}

\* the rows the conditional UPDATE of db_consume_promo changes
ConsumeMatch(code) == {p \in promo_codes : p.code = code /\ p.used_count < p.max_uses}

\* db_consume_promo, the conditional UPDATE; on success cmd_redeem goes on
\* to grant_or_extend_access with the duration of the row it had read
RedeemConsume(r) ==
    /\ pc[r] = "consume"
    /\ LET hit == ConsumeMatch(loc[r].code) IN
       IF hit = {}
       THEN /\ pc' = [pc EXCEPT ![r] = "done"]
            /\ loc' = [loc EXCEPT ![r] = Return("rejected")]
            /\ UNCHANGED promo_codes
       ELSE /\ promo_codes' = (promo_codes \ hit) \cup
                   {[p EXCEPT !.used_count = p.used_count + 1] : p \in hit}
            /\ pc' = [pc EXCEPT ![r] = "grant"]
            /\ loc' = [loc EXCEPT ![r].duration_days =
                                      (CHOOSE p \in loc[r].row : TRUE).duration_days,
                                  ![r].plan_key = "promo",
                                  ![r].promo_code = loc[r].code]
    /\ UNCHANGED <<now, users, subscriptions, files, job, admin, config, support>>

\* ------------------------------- successful_payment_handler (plan grant)
PlanKeyOf(payload) == {k \in DOMAIN PLANS : PLANS[k].payload = payload}

successful_payment_handler(r, tg_id, payload, tx_id) ==
    /\ pc[r] = "done"
    /\ LET keys == PlanKeyOf(payload) IN
       IF keys = {}
       THEN /\ pc' = [pc EXCEPT ![r] = "done"]
            /\ loc' = [loc EXCEPT ![r] = Return("noplan")]
       ELSE /\ Room
            /\ pc' = [pc EXCEPT ![r] = "grant"]
            /\ loc' = [loc EXCEPT ![r] = [NoLoc EXCEPT !.cmd = "pay",
                           !.tg_id = tg_id, !.tx_id = tx_id,
                           !.plan_key = CHOOSE k \in keys : TRUE,
                           !.duration_days =
                               PLANS[CHOOSE k \in keys : TRUE].duration_days]]
    /\ UNCHANGED <<now, store, files, job, admin, config, support>>

\* ----------------------------------- cb_buy -> try_send_invoice (/buy)
\* plan keys a buy:<plan_key> callback is modelled to carry
BuyKeys == {"month", "week"}

\* what reply_invoice does: the invoice is sent, Telegram rejects it
\* (BadRequest), or another error is raised
InvoiceOutcomes == {"sent", "badrequest", "raise"}

\* try_send_invoice granting on every rejected invoice
AfterBadRequestGrant(test_zero) == "grant"

\* try_send_invoice, the except BadRequest clause: the test grant under
\* PAY_TEST_ZERO, else the error reply
AfterBadRequest(test_zero) == IF test_zero THEN "grant" ELSE "reply"

\* cb_buy in a private chat (qmsg.chat_id is the user's id), with the
\* payment provider configured: try_send_invoice for the plan key of the
\* callback data
try_send_invoice(r, chat_id, plan_key, outcome) ==
    /\ pc[r] = "done"
    /\ IF plan_key \notin DOMAIN PLANS
       THEN /\ pc' = [pc EXCEPT ![r] = "done"]
            /\ loc' = [loc EXCEPT ![r] = Return("unknownplan")]
       ELSE IF outcome = "sent"
       THEN /\ pc' = [pc EXCEPT ![r] = "done"]
            /\ loc' = [loc EXCEPT ![r] = Return("invoiced")]
       ELSE IF outcome = "raise"
       THEN /\ pc' = [pc EXCEPT ![r] = "done"]
            /\ loc' = [loc EXCEPT ![r] = Return("raised")]
       ELSE IF AfterBadRequest(PAY_TEST_ZERO) = "grant"
       THEN /\ Room
            /\ pc' = [pc EXCEPT ![r] = "grant"]
            /\ loc' = [loc EXCEPT ![r] = [NoLoc EXCEPT !.cmd = "testzero",
                           !.tg_id = chat_id, !.tx_id = "TEST-ZERO",
                           !.plan_key = plan_key,
                           !.duration_days = PLANS[plan_key].duration_days]]
       ELSE /\ pc' = [pc EXCEPT ![r] = "done"]
            /\ loc' = [loc EXCEPT ![r] = Return("payfail")]
    /\ UNCHANGED <<now, store, files, job, admin, config, support>>

\* ------------------------------------------------ grant_or_extend_access
\* db_upsert_user, then the head of db_create_or_extend_sub: now_ts() and
\* the read of the current period
GrantRead(r) ==
    /\ pc[r] = "grant"
    /\ users' = db_upsert_user(loc[r].tg_id, "")
    /\ LET found == db_get_active_sub(subscriptions, loc[r].tg_id, now) IN
       \E cur \in (IF found = {} THEN {{}} ELSE {{row} : row \in found}) :
          loc' = [loc EXCEPT ![r].now = now, ![r].cur_active = cur]
    /\ pc' = [pc EXCEPT ![r] = "write"]
    /\ UNCHANGED <<now, subscriptions, promo_codes, files, job, admin, config, support>>

\* db_create_or_extend_sub overwriting the end time instead of adding to it
NewSubRowOverwrite(l) ==
    [tg_id      |-> l.tg_id,
     start_ts   |-> IF l.cur_active # {}
                    THEN (CHOOSE row \in l.cur_active : TRUE).start_ts ELSE l.now,
     end_ts     |-> l.now + l.duration_days * DaySeconds,
     status     |-> "active",
     plan       |-> l.plan_key,
     promo_code |-> l.promo_code,
     tx_id      |-> l.tx_id,
     created_at |-> l.now]

\* the row db_create_or_extend_sub inserts
NewSubRow(l) ==
    LET ext == l.cur_active # {}
        cur == CHOOSE row \in l.cur_active : TRUE
    IN [tg_id      |-> l.tg_id,
        start_ts   |-> IF ext THEN cur.start_ts ELSE l.now,
        end_ts     |-> IF ext THEN cur.end_ts + l.duration_days * DaySeconds
                              ELSE l.now + l.duration_days * DaySeconds,
        status     |-> "active",
        plan       |-> l.plan_key,
        promo_code |-> l.promo_code,
        tx_id      |-> l.tx_id,
        created_at |-> l.now]

\* db_create_or_extend_sub without its UPDATE of the rows that have run out
ExtendExpiresNone(tg_id, ts) == {}

\* the rows the UPDATE of db_create_or_extend_sub marks expired
ExtendExpires(tg_id, ts) == StaleIdsOf(tg_id, ts)

\* grant_or_extend_access going to the provisioning call with the INSERT
\* not yet committed
GrantWriteDeferred(r) ==
    /\ pc[r] = "write"
    /\ loc' = [loc EXCEPT ![r].active = {NewSubRow(loc[r])}]
    /\ pc' = [pc EXCEPT ![r] = "provision"]
    /\ UNCHANGED <<now, store, files, job, admin, config, support>>

\* db_create_or_extend_sub: the write transaction (UPDATE + INSERT) and the
\* closing db_get_active_sub
GrantWrite(r) ==
    /\ pc[r] = "write"
    /\ LET l == loc[r]
           subs == Append(SetStatus(subscriptions, ExtendExpires(l.tg_id, l.now),
                                    "expired"),
                          NewSubRow(l))
           found == db_get_active_sub(subs, l.tg_id, now)
       IN /\ subscriptions' = subs
          /\ \E act \in (IF found = {} THEN {{}} ELSE {{row} : row \in found}) :
                loc' = [loc EXCEPT ![r].active = act]
    /\ pc' = [pc EXCEPT ![r] = "provision"]
    /\ UNCHANGED <<now, users, promo_codes, files, job, admin, config, support>>

\* a store error (sqlite3.Error out of db() or execute) or a crash of the
\* process inside grant_or_extend_access, before the INSERT has committed:
\* the exception ends the handler
StoreError(r) ==
    /\ pc[r] \in {"grant", "write"}
    /\ pc' = [pc EXCEPT ![r] = "done"]
    /\ loc' = [loc EXCEPT ![r] = Return("raised")]
    /\ UNCHANGED <<now, store, files, job, admin, config, support>>

\* what the provisioning script does to one call of run_script
ScriptOutcomes == {"ok", "fail", "raise"}

\* the result of grant_or_extend_access, given what ensure_client_files did
\* ("true", "false" or "raise") and the row db_create_or_extend_sub returned;
\* int(active["end_ts"]) raises when that row is None
GrantResult(provisioned, active) ==
    CASE provisioned = "raise" -> "raised"
      [] provisioned = "false" -> "fail"
      [] provisioned = "true" /\ active = {} -> "raised"
      [] OTHER -> "ok"

\* what one run of the script's add can do: as above, or exit 0 without
\* leaving a conf file
AddOutcomes == ScriptOutcomes \cup {"noconf"}

\* ensure_client_files calling the script whether or not the conf exists
ensure_client_files_always(vpn_user, outcome) ==
    CASE outcome = "ok" -> "true"
      [] outcome \in {"fail", "noconf"} -> "false"
      [] OTHER -> "raise"

\* ensure_client_files: True at once when the conf exists, else the script's
\* add; a non-zero exit, or exit 0 without a conf, gives False, a timeout of
\* subprocess.run raises
ensure_client_files(vpn_user, outcome) ==
    IF vpn_user \in conf_files THEN "true"
    ELSE CASE outcome = "ok" -> "true"
           [] outcome \in {"fail", "noconf"} -> "false"
           [] OTHER -> "raise"

\* set_expires_file(vpn_user, int(active["end_ts"])): the end of the row the
\* handler holds
set_expires_file(vpn_user, active) ==
    [expires_at EXCEPT ![vpn_user] = {a.end_ts : a \in active}]

\* grant_or_extend_access after the store: ensure_client_files, then
\* set_expires_file (which has no await of its own) and the return to the
\* handler; cmd_myvpn and on_cb_get go through the same two calls once they
\* have found the current period. What the script does to the expires_at
\* file is not part of this repository and is not modelled.
Provision(r, outcome) ==
    /\ pc[r] = "provision"
    /\ LET vpn_user == ensure_vpn_username(loc[r].tg_id)
           prov == ensure_client_files(vpn_user, outcome)
           res == GrantResult(prov, loc[r].active)
       IN /\ vpn_user \in conf_files => outcome = "ok"
          /\ conf_files' = IF prov = "true" THEN conf_files \cup {vpn_user}
                                            ELSE conf_files
          /\ expires_at' = IF res = "ok"
                           THEN set_expires_file(vpn_user, loc[r].active)
                           ELSE expires_at
          /\ loc' = [loc EXCEPT ![r] = Return(res)]
    /\ pc' = [pc EXCEPT ![r] = "done"]
    /\ UNCHANGED <<now, store, job, admin, config, support>>

\* ---------------------------- /start, /status, /myvpn, get:conf, get:qr
\* cmd_start: the user row is upserted with the account's current username,
\* then the greeting
cmd_start(r, tg_id, tg_username) ==
    /\ pc[r] = "done"
    /\ users' = db_upsert_user(tg_id, tg_username)
    /\ pc' = [pc EXCEPT ![r] = "done"]
    /\ loc' = [loc EXCEPT ![r] = Return("greeted")]
    /\ UNCHANGED <<now, subscriptions, promo_codes, files, job, admin, config, support>>

\* what a query handler keeps of the row db_get_active_sub returned
Found(result, sub) == [Return(result) EXCEPT !.active = sub]

\* cmd_status closing the identity's run-out periods as it reads them
cmd_status_sweeping(r, tg_id) ==
    /\ pc[r] = "done"
    /\ users' = db_upsert_user(tg_id, NoUsername)
    /\ subscriptions' = SetStatus(subscriptions, StaleIdsOf(tg_id, now), "expired")
    /\ LET found == db_get_active_sub(subscriptions, tg_id, now) IN
       IF found = {}
       THEN loc' = [loc EXCEPT ![r] = Return("inactive")]
       ELSE \E sub \in found : loc' = [loc EXCEPT ![r] = Found("active", {sub})]
    /\ pc' = [pc EXCEPT ![r] = "done"]
    /\ UNCHANGED <<now, promo_codes, files, job, admin, config, support>>

\* cmd_status: "not active" without a current period, else the report of
\* the row's plan, promo code, start and end
cmd_status(r, tg_id) ==
    /\ pc[r] = "done"
    /\ users' = db_upsert_user(tg_id, NoUsername)
    /\ LET found == db_get_active_sub(subscriptions, tg_id, now) IN
       IF found = {}
       THEN loc' = [loc EXCEPT ![r] = Return("inactive")]
       ELSE \E sub \in found : loc' = [loc EXCEPT ![r] = Found("active", {sub})]
    /\ pc' = [pc EXCEPT ![r] = "done"]
    /\ UNCHANGED <<now, subscriptions, promo_codes, files, job, admin, config, support>>

\* the head of cmd_myvpn and of on_cb_get: the user row (cmd_myvpn upserts
\* it, on_cb_get only when db_get_user finds none), the current period and
\* the early return without one; with one, ensure_client_files is next
IssueFiles(r, tg_id, cmd) ==
    /\ pc[r] = "done"
    /\ users' = IF cmd # "myvpn" /\ db_get_user(tg_id) # {}
                THEN users
                ELSE db_upsert_user(tg_id, NoUsername)
    /\ LET found == db_get_active_sub(subscriptions, tg_id, now) IN
       IF found = {}
       THEN /\ pc' = [pc EXCEPT ![r] = "done"]
            /\ loc' = [loc EXCEPT ![r] = Return("inactive")]
       ELSE /\ pc' = [pc EXCEPT ![r] = "provision"]
            /\ \E sub \in found :
                  loc' = [loc EXCEPT ![r] = [NoLoc EXCEPT !.cmd = cmd,
                              !.tg_id = tg_id, !.active = {sub}]]
    /\ UNCHANGED <<now, subscriptions, promo_codes, files, job, admin, config, support>>

cmd_myvpn(r, tg_id) == IssueFiles(r, tg_id, "myvpn")

\* callback data "get:conf" or "get:qr" (the sending of the file, and the
\* QR image, are not modelled)
on_cb_get(r, tg_id, data) == IssueFiles(r, tg_id, data)

\* ------------------------------------------------- admin promo commands
\* db_add_promo with INSERT OR REPLACE: an existing code is overwritten
db_add_promo_replace(code, days, max_uses) ==
    (promo_codes \ db_get_promo(code)) \cup
        {[code |-> code, duration_days |-> days,
          max_uses |-> max_uses, used_count |-> 0]}

\* cmd_addpromo -> db_add_promo: the INSERT fails on an existing code
db_add_promo(code, days, max_uses) ==
    IF db_get_promo(code) # {} THEN promo_codes
    ELSE promo_codes \cup {[code |-> code, duration_days |-> days,
                            max_uses |-> max_uses, used_count |-> 0]}

cmd_addpromo(code, days, max_uses) ==
    /\ promo_codes' = db_add_promo(code, days, max_uses)
    /\ UNCHANGED <<now, users, subscriptions, files, pc, loc, job, admin, config, support>>

\* cmd_delpromo -> db_del_promo
cmd_delpromo(code) ==
    /\ promo_codes' = promo_codes \ db_get_promo(code)
    /\ UNCHANGED <<now, users, subscriptions, files, pc, loc, job, admin, config, support>>

\* ------------------------------------------------------ job_expiry_check
NextVictim(rest) == IF rest = <<>> THEN "idle" ELSE "revoke"

\* the job starts: db_all_expired_to_revoke
SweepSelect ==
    /\ Yielded
    /\ jpc = "idle"
    /\ victims' = SetToSeq(db_all_expired_to_revoke)
    /\ jpc' = NextVictim(victims')
    /\ UNCHANGED <<now, store, files, pc, loc, admin, config, support>>

\* the effect of a revoke run of the script on the client files
ScriptRevoke(vpn_user, outcome) ==
    IF outcome = "ok" THEN conf_files \ {vpn_user} ELSE conf_files

\* revoke_user raising on a non-zero exit status of the script
AfterRevokeChecked(outcome) == IF outcome = "ok" THEN "mark" ELSE "skip"

\* where job_expiry_check goes after revoke_user: revoke_user drops the
\* script's exit status, only an exception skips db_mark_user_expired
AfterRevoke(outcome) == IF outcome = "raise" THEN "skip" ELSE "mark"

\* job_expiry_check with try/except around the whole loop: the first
\* exception ends the sweep
SkippedAll(vs) == <<>>

\* the victims left when the except clause of the loop body has logged the
\* failure of the first one: the for loop goes on
Skipped(vs) == Tail(vs)

\* await revoke_user(vpn_user) for the first remaining victim
SweepRevoke(outcome) ==
    /\ Yielded
    /\ jpc = "revoke"
    /\ LET tg_id == Head(victims)
           vpn_user == ensure_vpn_username(tg_id)
       IN /\ conf_files' = ScriptRevoke(vpn_user, outcome)
          /\ IF AfterRevoke(outcome) = "mark"
             THEN jpc' = "mark" /\ victims' = victims
             ELSE victims' = Skipped(victims) /\ jpc' = NextVictim(victims')
    /\ UNCHANGED <<now, store, expires_at, pc, loc, admin, config, support>>

\* db_mark_user_expired without status='active' in its WHERE clause
MarkExpiredAnyStatus(tg_id) == {i \in Ids : subscriptions[i].tg_id = tg_id}

\* the rows db_mark_user_expired marks expired
MarkExpiredIds(tg_id) == ActiveIdsOf(tg_id)

\* db_mark_user_expired(tg_id), then the next victim
SweepMark ==
    /\ Yielded
    /\ jpc = "mark"
    /\ subscriptions' = SetStatus(subscriptions, MarkExpiredIds(Head(victims)),
                                  "expired")
    /\ victims' = Tail(victims)
    /\ jpc' = NextVictim(victims')
    /\ UNCHANGED <<now, users, promo_codes, files, pc, loc, admin, config, support>>

\* db_mark_user_expired raises (sqlite3.Error): the transaction is rolled
\* back and the except clause of the loop body takes the job to the next
\* victim
SweepMarkError ==
    /\ Yielded
    /\ jpc = "mark"
    /\ victims' = Skipped(victims)
    /\ jpc' = NextVictim(victims')
    /\ UNCHANGED <<now, store, files, pc, loc, admin, config, support>>

\* ------------------------------------------ admin bot: /add and /revoke
\* client names the admin is modelled to type: the name of an identity, the
\* same number written with a leading zero, and a name without a number
ClientNames == VpnUsers \cup {<<"u", 0, t>> : t \in TgIds} \cup {<<"office">>}

\* int() of a run of decimal digits
DecimalValue(digits) ==
    LET RECURSIVE Value(_)
        Value(ds) == IF ds = <<>> THEN 0
                     ELSE 10 * Value(SubSeq(ds, 1, Len(ds) - 1)) + ds[Len(ds)]
    IN Value(digits)

\* re.fullmatch(r"u(\d+)", username) and int(m.group(1)): the tg_id a client
\* name stands for, if any
ParseTgId(username) ==
    IF /\ Len(username) >= 2
       /\ username[1] = "u"
       /\ \A i \in 2..Len(username) : username[i] \in 0..9
    THEN {DecimalValue(Tail(username))}
    ELSE {}

\* cmd_add: the script's add for the name typed
cmd_add(username, outcome) ==
    /\ apc = "idle"
    /\ conf_files' = IF outcome = "ok" THEN conf_files \cup {username}
                                       ELSE conf_files
    /\ UNCHANGED <<now, store, expires_at, pc, loc, job, admin, config, support>>

\* the admin bot going on to the store whatever the script returned
RevokedAlways(outcome) == TRUE

\* proc.returncode == 0 after the script's revoke
Revoked(outcome) == outcome = "ok"

\* cmd_revoke: the script run; only exit status 0 leads on to
\* notify_user_revoked_if_possible, and only a name u<digits> to its UPDATE
cmd_revoke(username, outcome) ==
    /\ apc = "idle"
    /\ conf_files' = ScriptRevoke(username, outcome)
    /\ LET id == ParseTgId(username) IN
       IF Revoked(outcome) /\ id # {}
       THEN apc' = "cancel" /\ a_tg' = CHOOSE t \in id : TRUE
       ELSE UNCHANGED admin
    /\ UNCHANGED <<now, store, expires_at, pc, loc, job, config, support>>

\* on_cb, callback data act:revoke:<name>: the same script run and the same
\* call of notify_user_revoked_if_possible
on_cb_revoke(name, outcome) == cmd_revoke(name, outcome)

\* /revoke u<tg_id> with the name the user bot gave the identity
AdminRevoke(tg_id, outcome) == cmd_revoke(ensure_vpn_username(tg_id), outcome)

\* the admin bot's UPDATE touching one active row only (LIMIT 1)
CancelIdsFirst(tg_id) ==
    {i \in ActiveIdsOf(tg_id) : \A j \in ActiveIdsOf(tg_id) : i <= j}

\* rows the admin bot's UPDATE marks canceled
CancelIds(tg_id) == ActiveIdsOf(tg_id)

\* notify_user_revoked_if_possible: UPDATE ... SET status='canceled'
AdminCancel ==
    /\ apc = "cancel"
    /\ subscriptions' = SetStatus(subscriptions, CancelIds(a_tg), "canceled")
    /\ apc' = "idle"
    /\ a_tg' = 0
    /\ UNCHANGED <<now, users, promo_codes, files, pc, loc, job, config, support>>

Next ==
    \/ Tick
    \/ \E r \in Reqs, t \in TgIds, c \in Codes :
          Sequential(r) /\ RedeemSelect(r, t, c)
    \/ \E r \in Reqs : RedeemConsume(r)
    \/ \E r \in Reqs, t \in TgIds, p \in Payloads, x \in TxIds :
          Sequential(r) /\ successful_payment_handler(r, t, p, x)
    \/ \E r \in Reqs : GrantRead(r)
    \/ \E r \in Reqs : GrantWrite(r)
    \/ \E r \in Reqs : StoreError(r)
    \/ \E r \in Reqs, o \in AddOutcomes : Provision(r, o)
    \/ \E c \in Codes, d \in 1..MaxPromoDays : cmd_addpromo(c, d, MaxUses)
    \/ \E c \in Codes : cmd_delpromo(c)
    \/ SweepSelect
    \/ \E o \in ScriptOutcomes : SweepRevoke(o)
    \/ SweepMark
    \/ SweepMarkError
    \/ \E t \in TgIds, o \in ScriptOutcomes : AdminRevoke(t, o)
    \/ AdminCancel

Spec == Init /\ [][Next]_vars

\* ------------------------------------------- one identity's lifecycle
\* Every store statement on subscriptions filters on tg_id, so the periods
\* of one identity evolve by that identity's grants, the job and the admin
\* bot alone: the whole program as above, with every update coming from
\* one identity and the promo code lasting as long as the modelled horizon.
NextOne ==
    \/ Tick
    \/ \E r \in Reqs, c \in Codes :
          Sequential(r) /\ RedeemSelect(r, CHOOSE t \in TgIds : TRUE, c)
    \/ \E r \in Reqs : RedeemConsume(r)
    \/ \E r \in Reqs, p \in Payloads, x \in TxIds :
          Sequential(r) /\
          successful_payment_handler(r, CHOOSE t \in TgIds : TRUE, p, x)
    \/ \E r \in Reqs : GrantRead(r)
    \/ \E r \in Reqs : GrantWrite(r)
    \/ \E r \in Reqs : StoreError(r)
    \/ \E r \in Reqs, o \in AddOutcomes : Provision(r, o)
    \/ \E c \in Codes : cmd_addpromo(c, MaxDays, MaxUses)
    \/ \E c \in Codes : cmd_delpromo(c)
    \/ SweepSelect
    \/ \E o \in ScriptOutcomes : SweepRevoke(o)
    \/ SweepMark
    \/ SweepMarkError
    \/ \E o \in ScriptOutcomes : AdminRevoke(CHOOSE t \in TgIds : TRUE, o)
    \/ AdminCancel

SpecOne == Init /\ [][NextOne]_vars

\* ----------------------------------- the lifecycle with the user queries
\* One identity redeems a code that lasts as long as the modelled horizon,
\* its periods run out, are swept and are canceled by the admin bot, while
\* /status, /myvpn and the get: callbacks arrive from that identity and from
\* one that never redeems.
QueryIds == {t \in TgIds : t <= 2}

NextQuery ==
    \/ Tick
    \/ \E r \in Reqs, c \in Codes :
          Sequential(r) /\ RedeemSelect(r, CHOOSE t \in TgIds : TRUE, c)
    \/ \E r \in Reqs : RedeemConsume(r)
    \/ \E r \in Reqs : GrantRead(r)
    \/ \E r \in Reqs : GrantWrite(r)
    \/ \E r \in Reqs, o \in AddOutcomes : Provision(r, o)
    \/ \E c \in Codes : cmd_addpromo(c, MaxDays, MaxUses)
    \/ SweepSelect
    \/ \E o \in ScriptOutcomes : SweepRevoke(o)
    \/ SweepMark
    \/ SweepMarkError
    \/ \E o \in ScriptOutcomes : AdminRevoke(CHOOSE t \in TgIds : TRUE, o)
    \/ AdminCancel
    \/ \E r \in Reqs, t \in QueryIds : Sequential(r) /\ cmd_status(r, t)
    \/ \E r \in Reqs, t \in QueryIds : Sequential(r) /\ cmd_myvpn(r, t)
    \/ \E r \in Reqs, t \in QueryIds, d \in {"get:conf", "get:qr"} :
          Sequential(r) /\ on_cb_get(r, t, d)

SpecQuery == Init /\ [][NextQuery]_vars

\* ------------------------------------------------- the promo ledger alone
\* The promo commands with every modelled argument and /redeem handlers
\* running in all slots at once (several bot instances on one store). The
\* clock, the expiry job and the admin bot never read or write promo_codes
\* and are left out.
NextLedger ==
    \/ \E r \in Reqs, t \in TgIds, c \in Codes : RedeemSelect(r, t, c)
    \/ \E r \in Reqs : RedeemConsume(r)
    \/ \E r \in Reqs : GrantRead(r)
    \/ \E r \in Reqs : GrantWrite(r)
    \/ \E r \in Reqs : StoreError(r)
    \/ \E r \in Reqs, o \in AddOutcomes : Provision(r, o)
    \/ \E c \in Codes, d \in DaysArgs, m \in MaxUsesArgs : cmd_addpromo(c, d, m)
    \/ \E c \in Codes : cmd_delpromo(c)

SpecLedger == Init /\ [][NextLedger]_vars

\* ------------------------------------------ the promo commands alone
\* /addpromo with every modelled argument and /delpromo, between the
\* /redeem updates of one identity handled one at a time, the provisioning
\* script succeeding.
NextPromo ==
    \/ \E c \in Codes, d \in DaysArgs, m \in MaxUsesArgs : cmd_addpromo(c, d, m)
    \/ \E c \in Codes : cmd_delpromo(c)
    \/ \E r \in Reqs, c \in Codes :
          Sequential(r) /\ RedeemSelect(r, CHOOSE t \in TgIds : TRUE, c)
    \/ \E r \in Reqs : RedeemConsume(r)
    \/ \E r \in Reqs : GrantRead(r)
    \/ \E r \in Reqs : GrantWrite(r)
    \/ \E r \in Reqs : Provision(r, "ok")

SpecPromo == Init /\ [][NextPromo]_vars

\* ------------------------------------ M concurrent /redeem on one code
\* One code with max_uses = N and used_count = 0 exists and is neither
\* added nor deleted; each of the M = NumReqs slots runs /redeem once.
InitRedeem ==
    /\ now = 0
    /\ users = {}
    /\ subscriptions = <<>>
    /\ \E c \in Codes, d \in 1..MaxPromoDays, n \in 1..MaxUses :
          promo_codes = {[code |-> c, duration_days |-> d, max_uses |-> n,
                          used_count |-> 0]}
    /\ conf_files = {}
    /\ expires_at = NoMarkers
    /\ pc = [r \in Reqs |-> "done"]
    /\ loc = [r \in Reqs |-> NoLoc]
    /\ jpc = "idle"
    /\ victims = <<>>
    /\ apc = "idle"
    /\ a_tg = 0
    /\ PAY_TEST_ZERO = TRUE
    /\ SupportInit

NextRedeem ==
    \/ \E r \in Reqs, t \in TgIds, c \in Codes :
          loc[r].result = "none" /\ RedeemSelect(r, t, c)
    \/ \E r \in Reqs : RedeemConsume(r)
    \/ \E r \in Reqs : GrantRead(r)
    \/ \E r \in Reqs : GrantWrite(r)
    \/ \E r \in Reqs : StoreError(r)
    \/ \E r \in Reqs, o \in AddOutcomes : Provision(r, o)

SpecRedeem == InitRedeem /\ [][NextRedeem]_vars

\* ------------------------------------------------ the expiry sweep alone
\* Every identity redeemed a one-day code at time 0 and the day has passed;
\* the client files of any of them may be missing (a failed provisioning
\* leaves the period without files). The job and the admin bot run; no
\* update arrives.
SweepRow(tg_id) ==
    [tg_id |-> tg_id, start_ts |-> 0, end_ts |-> DaySeconds, status |-> "active",
     plan |-> "promo", promo_code |-> "WELCOME10", tx_id |-> "", created_at |-> 0]

InitSweep ==
    /\ now = DaySeconds
    /\ users = {[tg_id |-> t, tg_username |-> "",
                  vpn_user |-> ensure_vpn_username(t), created_at |-> 0] : t \in TgIds}
    /\ subscriptions = [i \in 1..NumUsers |-> SweepRow(i)]
    /\ promo_codes = {}
    /\ conf_files \in SUBSET VpnUsers
    /\ expires_at = NoMarkers
    /\ pc = [r \in Reqs |-> "done"]
    /\ loc = [r \in Reqs |-> NoLoc]
    /\ jpc = "idle"
    /\ victims = <<>>
    /\ apc = "idle"
    /\ a_tg = 0
    /\ PAY_TEST_ZERO = TRUE
    /\ SupportInit

NextSweep ==
    \/ SweepSelect
    \/ \E o \in ScriptOutcomes : SweepRevoke(o)
    \/ SweepMark
    \/ SweepMarkError
    \/ \E t \in TgIds, o \in ScriptOutcomes : AdminRevoke(t, o)
    \/ AdminCancel

SpecSweep == InitSweep /\ [][NextSweep]_vars

\* ------------------------------------- overlapping provisioning calls
\* One identity redeems and asks for its files with /myvpn and the get:
\* callbacks, the handlers running in all slots at once (several bot
\* instances on one store and one clients directory), so that their script
\* calls overlap. The script succeeds; the clock, the expiry job and the
\* admin bot are left out: no conf file is ever removed.
NextMarker ==
    \/ \E r \in Reqs, c \in Codes : RedeemSelect(r, CHOOSE t \in TgIds : TRUE, c)
    \/ \E r \in Reqs : RedeemConsume(r)
    \/ \E r \in Reqs : GrantRead(r)
    \/ \E r \in Reqs : GrantWrite(r)
    \/ \E r \in Reqs : Provision(r, "ok")
    \/ \E c \in Codes : cmd_addpromo(c, MaxDays, MaxUses)
    \/ \E r \in Reqs : cmd_myvpn(r, CHOOSE t \in TgIds : TRUE)
    \/ \E r \in Reqs, d \in {"get:conf", "get:qr"} :
          on_cb_get(r, CHOOSE t \in TgIds : TRUE, d)

SpecMarker == Init /\ [][NextMarker]_vars

\* ------------------------------------------------------ buying a plan
\* The bot runs with PAY_TEST_ZERO on or off; buy: callbacks and
\* successful-payment updates arrive one at a time. The plans outlast the
\* modelled horizon, so the clock and the expiry job are left out.
InitInvoice ==
    /\ now = 0
    /\ users = {}
    /\ subscriptions = <<>>
    /\ promo_codes = {}
    /\ conf_files = {}
    /\ expires_at = NoMarkers
    /\ pc = [r \in Reqs |-> "done"]
    /\ loc = [r \in Reqs |-> NoLoc]
    /\ jpc = "idle"
    /\ victims = <<>>
    /\ apc = "idle"
    /\ a_tg = 0
    /\ PAY_TEST_ZERO \in BOOLEAN
    /\ SupportInit

NextInvoice ==
    \/ \E r \in Reqs, t \in TgIds, k \in BuyKeys, o \in InvoiceOutcomes :
          Sequential(r) /\ try_send_invoice(r, t, k, o)
    \/ \E r \in Reqs, t \in TgIds, p \in Payloads, x \in TxIds :
          Sequential(r) /\ successful_payment_handler(r, t, p, x)
    \/ \E r \in Reqs : GrantRead(r)
    \/ \E r \in Reqs : GrantWrite(r)
    \/ \E r \in Reqs : StoreError(r)
    \/ \E r \in Reqs, o \in AddOutcomes : Provision(r, o)

SpecInvoice == InitInvoice /\ [][NextInvoice]_vars

\* ------------------------------------------------------- the users table
\* /start arrives from every identity under every modelled username; one
\* identity also redeems, asks for its status and its files, and has its
\* period swept when it has run out. The provisioning script succeeds.
NextUsers ==
    \/ Tick
    \/ \E r \in Reqs, t \in TgIds, n \in Usernames :
          Sequential(r) /\ cmd_start(r, t, n)
    \/ \E r \in Reqs : Sequential(r) /\ cmd_status(r, CHOOSE t \in TgIds : TRUE)
    \/ \E r \in Reqs : Sequential(r) /\ cmd_myvpn(r, CHOOSE t \in TgIds : TRUE)
    \/ \E r \in Reqs :
          Sequential(r) /\ on_cb_get(r, CHOOSE t \in TgIds : TRUE, "get:conf")
    \/ \E r \in Reqs, c \in Codes :
          Sequential(r) /\ RedeemSelect(r, CHOOSE t \in TgIds : TRUE, c)
    \/ \E r \in Reqs : RedeemConsume(r)
    \/ \E r \in Reqs : GrantRead(r)
    \/ \E r \in Reqs : GrantWrite(r)
    \/ \E r \in Reqs : Provision(r, "ok")
    \/ \E c \in Codes : cmd_addpromo(c, MaxDays, MaxUses)
    \/ SweepSelect
    \/ SweepRevoke("ok")
    \/ SweepMark

SpecUsers == Init /\ [][NextUsers]_vars

\* ----------------------------------------------------- the admin bot alone
\* Every identity holds a period (as before a sweep); the admin adds and
\* revokes clients by name, from the command and from the button.
NextAdmin ==
    \/ \E n \in ClientNames, o \in ScriptOutcomes : cmd_add(n, o)
    \/ \E n \in ClientNames, o \in ScriptOutcomes : cmd_revoke(n, o)
    \/ \E n \in ClientNames, o \in ScriptOutcomes : on_cb_revoke(n, o)
    \/ AdminCancel

SpecAdmin == InitSweep /\ [][NextAdmin]_vars

\* ------------------------------- provisioning calls overlapping the sweep
\* One identity redeems a code that lasts as long as the modelled horizon and
\* asks for its files with /myvpn and the get: callbacks while the clock and
\* the expiry job run; every revoke of the script succeeds, no store error
\* occurs and the admin bot stays away.
NextOverlap ==
    \/ Tick
    \/ \E r \in Reqs, c \in Codes :
          Sequential(r) /\ RedeemSelect(r, CHOOSE t \in TgIds : TRUE, c)
    \/ \E r \in Reqs : RedeemConsume(r)
    \/ \E r \in Reqs : GrantRead(r)
    \/ \E r \in Reqs : GrantWrite(r)
    \/ \E r \in Reqs, o \in AddOutcomes : Provision(r, o)
    \/ \E c \in Codes : cmd_addpromo(c, MaxDays, MaxUses)
    \/ SweepSelect
    \/ SweepRevoke("ok")
    \/ SweepMark
    \/ \E r \in Reqs : Sequential(r) /\ cmd_myvpn(r, CHOOSE t \in TgIds : TRUE)
    \/ \E r \in Reqs, d \in {"get:conf", "get:qr"} :
          Sequential(r) /\ on_cb_get(r, CHOOSE t \in TgIds : TRUE, d)

SpecOverlap == Init /\ [][NextOverlap]_vars

\* ======================================================================
\* The support bot (src/support-bot/vpn_bot_support.py)
\* ======================================================================
\* A ticket row keeps tg_id, status and updated_at (tg_username, subject and
\* created_at are written once and never read back by a handler that
\* writes); a message row keeps ticket_id, from_role and from_id. All
\* chats are private. A handler has no await between its store statements,
\* and the bot runs one handler at a time: each handler is one step.

\* the accounts that write to the support bot: the staff member and a user
SupportUsers == {t \in TgIds : t <= 2}

TicketIds == 1..MaxTickets

\* the updates: a plain text, /new with and without text, /reply <id> <text>,
\* /close <id>, a command no CommandHandler is registered for, and the two
\* buttons of kb_staff_for_ticket
Updates ==
    {[kind |-> "message", command |-> "", tid |-> 0, text |-> "hello"],
     [kind |-> "message", command |-> "new", tid |-> 0, text |-> ""],
     [kind |-> "message", command |-> "new", tid |-> 0, text |-> "hello"],
     [kind |-> "message", command |-> "foo", tid |-> 0, text |-> "/foo"]}
    \cup {[kind |-> "message", command |-> c, tid |-> t, text |-> "hello"] :
             c \in {"reply", "close"}, t \in TicketIds}
    \cup {[kind |-> "callback", command |-> c, tid |-> t, text |-> ""] :
             c \in {"reply", "close"}, t \in TicketIds}

\* main: the handlers in the order of their registration (all in group 0)
Handlers == <<"cmd_start", "cmd_help", "cmd_new", "cmd_mytickets",
              "on_user_message", "cmd_tickets", "cmd_view", "cmd_reply",
              "cmd_close", "on_cb", "on_staff_message">>

\* the command a CommandHandler of main answers to
CommandOf(h) ==
    CASE h = "cmd_start" -> "start"
      [] h = "cmd_help" -> "help"
      [] h = "cmd_new" -> "new"
      [] h = "cmd_mytickets" -> "mytickets"
      [] h = "cmd_tickets" -> "tickets"
      [] h = "cmd_view" -> "view"
      [] h = "cmd_reply" -> "reply"
      [] h = "cmd_close" -> "close"
      [] OTHER -> "-"

\* check_update of each registered handler: the filters given in main
check_update(h, upd) ==
    CASE h = "on_user_message" -> upd.kind = "message" /\ upd.command = ""
      [] h = "on_staff_message" -> upd.kind = "message"
      [] h = "on_cb" -> upd.kind = "callback"
      [] OTHER -> upd.kind = "message" /\ upd.command = CommandOf(h)

\* Application.process_update: within a group the first handler whose
\* check_update accepts the update handles it, and only that one
Dispatch(upd) ==
    LET hits == {i \in 1..Len(Handlers) : check_update(Handlers[i], upd)}
    IN {Handlers[i] : i \in {k \in hits : \A j \in hits : k <= j}}

is_staff(uid) == uid \in ADMIN_IDS

\* ticket_get
ticket_get(tid) == {i \in 1..Len(tickets) : i = tid}

\* ticket_get_open_for_user without status='open' in its WHERE clause
ticket_get_any_for_user(tg_id) ==
    LET mine == {i \in 1..Len(tickets) : tickets[i].tg_id = tg_id}
    IN {i \in mine : \A j \in mine : tickets[j].updated_at <= tickets[i].updated_at}

\* ticket_get_open_for_user: ids of the rows the query may return (ORDER BY
\* updated_at DESC LIMIT 1; rows with equal updated_at are not ordered)
ticket_get_open_for_user(tg_id) ==
    LET mine == {i \in 1..Len(tickets) : /\ tickets[i].tg_id = tg_id
                                          /\ tickets[i].status = "open"}
    IN {i \in mine : \A j \in mine : tickets[j].updated_at <= tickets[i].updated_at}

\* ticket_create: the ticket and, with a text, its first message, in one
\* transaction
ticket_create(tg_id, first_text) ==
    /\ Len(tickets) < MaxTickets
    /\ first_text # "" => Len(messages) < MaxMsgs
    /\ tickets' = Append(tickets, [tg_id |-> tg_id, status |-> "open",
                                   updated_at |-> now])
    /\ messages' = IF first_text # ""
                   THEN Append(messages, [ticket_id |-> Len(tickets) + 1,
                                          from_role |-> "user", from_id |-> tg_id])
                   ELSE messages

\* ticket_add_message: the INSERT and the UPDATE of updated_at
ticket_add_message(ticket_id, from_role, from_id, text) ==
    /\ Len(messages) < MaxMsgs
    /\ messages' = Append(messages, [ticket_id |-> ticket_id, from_role |-> from_role,
                                     from_id |-> from_id])
    /\ tickets' = [i \in 1..Len(tickets) |->
                      IF i = ticket_id THEN [tickets[i] EXCEPT !.updated_at = now]
                                       ELSE tickets[i]]

\* ticket_close
ticket_close(ticket_id) ==
    tickets' = [i \in 1..Len(tickets) |->
                   IF i = ticket_id
                   THEN [tickets[i] EXCEPT !.status = "closed", !.updated_at = now]
                   ELSE tickets[i]]

\* what no handler of the support bot touches
SupportFrame == UNCHANGED <<now, store, files, pc, loc, job, admin, config>>

\* cmd_new: a new ticket whatever tickets the user has
cmd_new(uid, upd) ==
    /\ ticket_create(uid, upd.text)
    /\ UNCHANGED REPLY_AWAIT
    /\ SupportFrame

\* on_user_message: the text goes to the user's open ticket, or opens one
on_user_message(uid, upd) ==
    /\ LET t == ticket_get_open_for_user(uid) IN
       IF t = {}
       THEN ticket_create(uid, upd.text)
       ELSE \E tid \in t : ticket_add_message(tid, "user", uid, upd.text)
    /\ UNCHANGED REPLY_AWAIT
    /\ SupportFrame

\* cmd_reply: /reply <id> <text>
cmd_reply(uid, upd) ==
    /\ IF is_staff(uid) /\ ticket_get(upd.tid) # {}
       THEN ticket_add_message(upd.tid, "staff", uid, upd.text)
       ELSE UNCHANGED <<tickets, messages>>
    /\ UNCHANGED REPLY_AWAIT
    /\ SupportFrame

\* cmd_close: /close <id>
cmd_close(uid, upd) ==
    /\ IF is_staff(uid) /\ ticket_get(upd.tid) # {}
       THEN ticket_close(upd.tid)
       ELSE UNCHANGED tickets
    /\ UNCHANGED <<messages, REPLY_AWAIT>>
    /\ SupportFrame

\* on_cb: the buttons spt:reply:<id> and spt:close:<id>
on_cb(uid, upd) ==
    /\ IF ~is_staff(uid)
       THEN UNCHANGED <<tickets, REPLY_AWAIT>>
       ELSE IF upd.command = "reply"
       THEN /\ REPLY_AWAIT' = [REPLY_AWAIT EXCEPT ![uid] = {upd.tid}]
            /\ UNCHANGED tickets
       ELSE /\ IF ticket_get(upd.tid) # {} THEN ticket_close(upd.tid)
                                           ELSE UNCHANGED tickets
            /\ UNCHANGED REPLY_AWAIT
    /\ UNCHANGED messages
    /\ SupportFrame

\* on_staff_message: the text a staff member sends after pressing Reply
on_staff_message(uid, upd) ==
    /\ IF ~is_staff(uid) \/ REPLY_AWAIT[uid] = {}
       THEN UNCHANGED support
       ELSE /\ REPLY_AWAIT' = [REPLY_AWAIT EXCEPT ![uid] = {}]
            /\ \E tid \in REPLY_AWAIT[uid] :
                  IF ticket_get(tid) = {}
                  THEN UNCHANGED <<tickets, messages>>
                  ELSE ticket_add_message(tid, "staff", uid, upd.text)
    /\ SupportFrame

\* the bot handles one update: the handler Dispatch has found for it
process_update(uid, upd) ==
    \/ Dispatch(upd) = {"cmd_new"} /\ cmd_new(uid, upd)
    \/ Dispatch(upd) = {"on_user_message"} /\ on_user_message(uid, upd)
    \/ Dispatch(upd) = {"cmd_reply"} /\ cmd_reply(uid, upd)
    \/ Dispatch(upd) = {"cmd_close"} /\ cmd_close(uid, upd)
    \/ Dispatch(upd) = {"on_cb"} /\ on_cb(uid, upd)
    \/ Dispatch(upd) = {"on_staff_message"} /\ on_staff_message(uid, upd)

NextSupport ==
    \/ Tick
    \/ \E uid \in SupportUsers, upd \in Updates : process_update(uid, upd)

SpecSupport == Init /\ [][NextSupport]_vars

\* ------------------------------------------------ one user's tickets
\* One user writes texts and /new; the staff member answers with /reply and
\* closes with /close and with the button.
Customer == CHOOSE t \in SupportUsers : ~is_staff(t)

Staff == CHOOSE t \in SupportUsers : is_staff(t)

NextTickets ==
    \/ Tick
    \/ \E upd \in Updates :
          Dispatch(upd) = {"on_user_message"} /\ on_user_message(Customer, upd)
    \/ \E upd \in Updates :
          Dispatch(upd) = {"cmd_new"} /\ upd.text # "" /\ cmd_new(Customer, upd)
    \/ \E upd \in Updates : Dispatch(upd) = {"cmd_reply"} /\ cmd_reply(Staff, upd)
    \/ \E upd \in Updates : Dispatch(upd) = {"cmd_close"} /\ cmd_close(Staff, upd)
    \/ \E upd \in Updates :
          Dispatch(upd) = {"on_cb"} /\ upd.command = "close" /\ on_cb(Staff, upd)

SpecTickets == Init /\ [][NextTickets]_vars

\* ======================================================================
\* Properties
\* ======================================================================
AllReturned == \A r \in Reqs : pc[r] = "done" /\ loc[r].result # "none"

Consumed == {r \in Reqs : loc[r].result \in {"ok", "fail", "raised"}}

C2_AtMostOneActive ==
    \A t \in TgIds : Cardinality(ActiveIdsOf(t)) <= 1

\* C3: an identity that holds an active period ending in the future (after
\* an extension: until E + d) is not selected by the expiry sweep for
\* revocation and marking expired.
C3_SweepSparesEntitled ==
    [][SweepSelect =>
         \A k \in 1..Len(victims') :
            db_get_active_sub(subscriptions, victims'[k], now) = {}]_vars

\* C4: grant_or_extend on an identity with a live period inserts an active
\* row with start_ts = existing.start_ts and end_ts = existing.end_ts +
\* duration, and the existing row is 'expired' when the write has committed.
C4_ExtendFoldsOldPeriod ==
    [][\A r \in Reqs :
         (GrantWrite(r) /\ loc[r].cur_active # {}) =>
            LET cur == CHOOSE row \in loc[r].cur_active : TRUE
                new == subscriptions'[Len(subscriptions')]
            IN /\ new.status = "active"
               /\ new.start_ts = cur.start_ts
               /\ new.end_ts = cur.end_ts + loc[r].duration_days * DaySeconds
               /\ \A i \in Ids : subscriptions[i] = cur =>
                                    subscriptions'[i].status = "expired"]_vars

\* a row that is the first grant of a plan to an identity without a live
\* period: created at its own start and PLANS[plan].duration_days long
FirstPlanGrant(row) ==
    /\ row.plan \in DOMAIN PLANS
    /\ row.created_at = row.start_ts
    /\ row.end_ts = row.start_ts + PLANS[row.plan].duration_days * DaySeconds

\* C5: d1 days granted to an identity without a live period and then d2 > 0
\* days granted before that period's end give a current active period (the
\* row db_create_or_extend_sub returns) that starts at the time of the first
\* grant and ends d1 + d2 days after it, not earlier than either grant alone.
C5_AdditiveExtension ==
    \A r \in Reqs :
        (pc[r] = "provision" /\ loc[r].duration_days > 0) =>
            \A cur \in loc[r].cur_active :
                FirstPlanGrant(cur) =>
                    LET d1 == PLANS[cur.plan].duration_days
                        d2 == loc[r].duration_days
                    IN \E a \in loc[r].active :
                          /\ a.status = "active"
                          /\ a.start_ts = cur.start_ts
                          /\ a.end_ts = a.start_ts + (d1 + d2) * DaySeconds
                          /\ a.end_ts >= cur.start_ts + d1 * DaySeconds
                          /\ a.end_ts >= loc[r].now + d2 * DaySeconds

C5_Witness ==
    \E r \in Reqs :
        /\ pc[r] = "provision"
        /\ loc[r].duration_days > 0
        /\ \E cur \in loc[r].cur_active :
              FirstPlanGrant(cur) /\ loc[r].now > cur.start_ts
        /\ loc[r].active # {}

\* C6: a revoke that fails (the script exits non-zero, or the call raises)
\* on an identity whose client still exists leaves the identity to a later
\* sweep: the job does not go on to mark the identity expired.
C6_FailedRevokeIsRetried ==
    [][\A o \in ScriptOutcomes \ {"ok"} :
         (/\ SweepRevoke(o)
          /\ ensure_vpn_username(Head(victims)) \in conf_files) =>
            jpc' # "mark"]_vars

\* C7: once every /redeem call on a code has finished, with success or with
\* any failure, each use counted in used_count has its subscription row.
C7_AllOrNothing ==
    (\A r \in Reqs : pc[r] = "done") =>
        \A p \in promo_codes :
            p.used_count =
                Cardinality({i \in Ids : subscriptions[i].promo_code = p.code})

\* C8: when ensure_client_files fails inside grant_or_extend_access, the
\* subscription row and the promo use stay as written and the handler gets
\* ok = False.
C8_ProvisionFailureReported ==
    [][\A r \in Reqs, o \in ScriptOutcomes :
         (/\ Provision(r, o)
          /\ ensure_client_files(ensure_vpn_username(loc[r].tg_id), o) # "true") =>
            /\ subscriptions' = subscriptions
            /\ promo_codes' = promo_codes
            /\ loc'[r].result = "fail"]_vars

AtCap(code) == \E p \in db_get_promo(code) : p.used_count = p.max_uses

RejectedUnchanged(r) ==
    /\ pc'[r] = "done"
    /\ loc'[r].result = "rejected"
    /\ promo_codes' = promo_codes
    /\ subscriptions' = subscriptions

C10_UsedWithinCap ==
    \A p \in promo_codes : 0 <= p.used_count /\ p.used_count <= p.max_uses

\* the subscription periods a code backs
BackedBy(code) == {i \in Ids : subscriptions[i].promo_code = code}

\* C11: for every promo code c in the store (with a cap of at least 1), the
\* number of subscription periods whose promo_code is c never exceeds
\* max_uses of c, whatever the sequence of /addpromo, /delpromo and /redeem,
\* deleting c and adding it again under the same token included.
C11_PeriodsWithinCap ==
    \A p \in promo_codes :
        p.max_uses >= 1 => Cardinality(BackedBy(p.code)) <= p.max_uses

\* C12: a period never leaves 'expired' or 'canceled': every step keeps all
\* rows and their order, changes a row's status only from 'active' to
\* 'expired' or 'canceled' and leaves a row that is not 'active' as it is;
\* a grant appends a new row.
C12_ClosedPeriodsStayClosed ==
    [][/\ Len(subscriptions') >= Len(subscriptions)
       /\ \A i \in Ids :
             /\ subscriptions[i].status # "active" =>
                   subscriptions'[i] = subscriptions[i]
             /\ subscriptions'[i].status # subscriptions[i].status =>
                   /\ subscriptions[i].status = "active"
                   /\ subscriptions'[i].status \in {"expired", "canceled"}
       /\ \A r \in Reqs :
             GrantWrite(r) =>
                /\ Len(subscriptions') = Len(subscriptions) + 1
                /\ subscriptions'[Len(subscriptions')].status = "active"]_vars

\* a grant after the identity's earlier period was closed
C12_Witness ==
    \E i, j \in Ids :
        /\ i < j
        /\ subscriptions[i].tg_id = subscriptions[j].tg_id
        /\ subscriptions[i].status \in {"expired", "canceled"}
        /\ subscriptions[j].status = "active"
        /\ subscriptions[j].created_at >= subscriptions[i].end_ts

\* C13: cancel is idempotent: the admin bot's UPDATE ... SET
\* status='canceled' WHERE status='active', applied again to the store it
\* has just produced, changes nothing, and applied to an identity without an
\* active period (canceled, expired or without any period) it changes
\* nothing either and completes.
C13_CancelIdempotent ==
    [][\A t \in TgIds :
         (AdminCancel /\ a_tg = t) =>
            /\ SetStatus(subscriptions', CancelIds(t)', "canceled") = subscriptions'
            /\ (\A i \in Ids : subscriptions[i].tg_id = t =>
                                  subscriptions[i].status # "active")
                  => (subscriptions' = subscriptions /\ apc' = "idle")]_vars

\* the admin bot is about to cancel an identity it has already canceled
C13_Witness ==
    /\ apc = "cancel"
    /\ ActiveIdsOf(a_tg) = {}
    /\ \E i \in Ids : /\ subscriptions[i].tg_id = a_tg
                      /\ subscriptions[i].status = "canceled"

\* a step of the job in which the revoke or the mark of the first victim
\* raises
SweepFailure ==
    \/ \E o \in ScriptOutcomes : SweepRevoke(o) /\ AfterRevoke(o) = "skip"
    \/ SweepMarkError

\* C14: a failure while revoking or marking one victim does not stop the
\* sweep: the job drops that victim alone and goes on to revoke and mark
\* each of the others it had selected; it ends only when none is left.
C14_SweepGoesOn ==
    [][/\ SweepFailure =>
             /\ victims' = Tail(victims)
             /\ jpc' = IF victims' = <<>> THEN "idle" ELSE "revoke"
       /\ (jpc # "idle" /\ victims' # victims) => victims' = Tail(victims)
       /\ (jpc' = "idle") <=> (victims' = <<>>)
       /\ (jpc = "revoke" /\ jpc' = "mark") => victims' = victims
       /\ (jpc = "mark" /\ victims' # victims /\ ~SweepMarkError) =>
             \A i \in Ids : subscriptions[i].tg_id = Head(victims) =>
                               subscriptions'[i].status # "active"]_vars

\* the first victim failed and is still due, the job is at the next one
C14_Witness ==
    /\ jpc = "revoke"
    /\ \E t \in TgIds :
          /\ t < Head(victims)
          /\ \E i \in Ids : /\ subscriptions[i].tg_id = t
                            /\ subscriptions[i].status = "active"
                            /\ subscriptions[i].end_ts <= now

\* the identity has a period with status 'active' and end_ts > now
Entitled(tg_id) ==
    \E i \in Ids : /\ subscriptions[i].tg_id = tg_id
                   /\ subscriptions[i].status = "active"
                   /\ subscriptions[i].end_ts > now

\* the row is a qualifying period of the identity with the greatest end_ts
CurrentEntitlement(tg_id, row) ==
    /\ row.tg_id = tg_id
    /\ row.status = "active"
    /\ row.end_ts > now
    /\ \E i \in Ids : subscriptions[i] = row
    /\ \A i \in Ids : (/\ subscriptions[i].tg_id = tg_id
                       /\ subscriptions[i].status = "active"
                       /\ subscriptions[i].end_ts > now)
                         => subscriptions[i].end_ts <= row.end_ts

\* C15: /status, /myvpn and the get: callbacks treat an identity as entitled
\* if and only if it has a period with status 'active' and end_ts > now
\* (an active period with end_ts <= now not yet swept, and expired or
\* canceled periods, give nothing), and the period they work with is the
\* qualifying one with the greatest end_ts.
C15_EntitledIffLivePeriod ==
    [][\A r \in Reqs, t \in TgIds :
         /\ cmd_status(r, t) =>
               /\ (loc'[r].result = "active") <=> Entitled(t)
               /\ (loc'[r].result = "inactive") <=> ~Entitled(t)
               /\ Entitled(t) => /\ loc'[r].active # {}
                                 /\ \A a \in loc'[r].active : CurrentEntitlement(t, a)
         /\ (cmd_myvpn(r, t) \/ \E d \in {"get:conf", "get:qr"} : on_cb_get(r, t, d)) =>
               /\ (pc'[r] = "provision") <=> Entitled(t)
               /\ (loc'[r].result = "inactive") <=> ~Entitled(t)
               /\ Entitled(t) => /\ loc'[r].active # {}
                                 /\ \A a \in loc'[r].active : CurrentEntitlement(t, a)]_vars

\* /status has answered with the later-ending of two qualifying periods
C15_Witness ==
    \E r \in Reqs :
        /\ loc[r].result = "active"
        /\ \E a \in loc[r].active :
              /\ CurrentEntitlement(a.tg_id, a)
              /\ \E i \in Ids : /\ subscriptions[i].tg_id = a.tg_id
                                /\ subscriptions[i].status = "active"
                                /\ subscriptions[i].end_ts > now
                                /\ subscriptions[i].end_ts < a.end_ts

\* the latest period of an identity: its row with the greatest id
LatestOf(tg_id) ==
    LET mine == {i \in Ids : subscriptions[i].tg_id = tg_id}
    IN {subscriptions[i] : i \in {k \in mine : \A j \in mine : j <= k}}

\* C16: /status answers by the identity's latest period: Unentitled (the
\* "not active" reply) when the identity has no period, ActiveUntil(end)
\* when the latest period is active with its end in the future, Expired
\* when it is expired, Canceled when it is canceled.
C16_StatusByLatestPeriod ==
    [][\A r \in Reqs, t \in TgIds :
         cmd_status(r, t) =>
            /\ LatestOf(t) = {} => loc'[r].result = "inactive"
            /\ \A row \in LatestOf(t) :
                  /\ (row.status = "active" /\ row.end_ts > now) =>
                        /\ loc'[r].result = "active"
                        /\ \A a \in loc'[r].active : a.end_ts = row.end_ts
                  /\ row.status = "expired" => loc'[r].result = "expired"
                  /\ row.status = "canceled" => loc'[r].result = "canceled"]_vars

\* C17: /addpromo with a code that exists fails and leaves the code's
\* duration_days, max_uses and used_count as they are; /delpromo with an
\* unknown code fails and changes nothing; each is one attempt.
C17_PromoAdminFailsCleanly ==
    [][\A c \in Codes :
         /\ \A d \in DaysArgs, m \in MaxUsesArgs :
               (db_get_promo(c) # {} /\ cmd_addpromo(c, d, m)) =>
                  promo_codes' = promo_codes
         /\ (db_get_promo(c) = {} /\ cmd_delpromo(c)) =>
               promo_codes' = promo_codes]_vars

\* a used code that a second /addpromo with other arguments would overwrite
C17_Witness ==
    \E p \in promo_codes :
        /\ p.used_count > 0
        /\ \E d \in DaysArgs, m \in MaxUsesArgs :
              d # p.duration_days /\ m # p.max_uses

\* C18: every promo code in the store has duration_days > 0 and
\* max_uses >= 1, whatever integers /addpromo was given as DAYS and MAX_USES.
C18_PromoAttributesValid ==
    \A p \in promo_codes : p.duration_days > 0 /\ p.max_uses >= 1

\* the first victim has no client files: never provisioned, or removed
HeadAbsent == ensure_vpn_username(Head(victims)) \notin conf_files

C20_MarkSparesLivePeriods ==
    [][SweepMark =>
         \A i \in Ids :
            (subscriptions[i].status = "active" /\ subscriptions[i].end_ts > now)
               => subscriptions'[i].status = "active"]_vars

\* the end of the identity's current period at this moment, or the time the
\* grant read as now when it has none: the base a grant adds its days to
GrantBase(tg_id, ts) ==
    LET live == {i \in Ids : /\ subscriptions[i].tg_id = tg_id
                             /\ subscriptions[i].status = "active"
                             /\ subscriptions[i].end_ts > now}
    IN IF live = {} THEN ts
       ELSE subscriptions[CHOOSE i \in live :
                \A j \in live : subscriptions[j].end_ts <= subscriptions[i].end_ts].end_ts

\* C21: concurrent grants for one identity serialize: whatever the
\* interleaving of their reads and writes, each write adds its days to the
\* end the identity has when the write commits (so two grants d1 and d2 end
\* at base + d1 + d2), and no two calls that are both between their read and
\* their write hold the same predecessor.
C21_GrantsSerialize ==
    [][\A r \in Reqs :
         GrantWrite(r) =>
            /\ subscriptions'[Len(subscriptions')].end_ts =
                  GrantBase(loc[r].tg_id, loc[r].now)
                     + loc[r].duration_days * DaySeconds
            /\ \A q \in Reqs \ {r} :
                  (pc[q] = "write" /\ loc[q].tg_id = loc[r].tg_id) =>
                     loc[q].cur_active # loc[r].cur_active]_vars

\* C22: each expiry triggers the external revocation exactly once: when the
\* sweep marks an identity's periods expired its revoke call has succeeded
\* (the client is gone), and a sweep selects no identity whose periods are
\* all closed, so the revoke is not made again until a new period is granted
\* and runs out.
C22_RevokedOncePerExpiry ==
    [][/\ SweepMark => ensure_vpn_username(Head(victims)) \notin conf_files
       /\ SweepSelect =>
             \A k \in 1..Len(victims') :
                \E i \in Ids : /\ subscriptions[i].tg_id = victims'[k]
                               /\ subscriptions[i].status = "active"
                               /\ subscriptions[i].end_ts <= now]_vars

C24_EnsureProvisionedIdempotent ==
    [][/\ \A v \in VpnUsers, o \in AddOutcomes :
             /\ v \in conf_files => ensure_client_files(v, o) = "true"
             /\ v \notin conf_files =>
                   ((ensure_client_files(v, o) = "true") <=> (o = "ok"))
       /\ \A r \in Reqs, o \in AddOutcomes :
             (pc[r] = "provision" /\ Provision(r, o)) =>
                LET v == ensure_vpn_username(loc[r].tg_id) IN
                /\ v \in conf_files => conf_files' = conf_files
                /\ v \notin conf_files =>
                      conf_files' = IF o = "ok" THEN conf_files \cup {v}
                                                ELSE conf_files
                /\ pc'[r] = "done"]_vars

\* a handler is at ensure_client_files for an identity whose conf exists
C24_Witness ==
    \E r \in Reqs :
        /\ pc[r] = "provision"
        /\ ensure_vpn_username(loc[r].tg_id) \in conf_files

\* C25: a transient failure of the provisioning call (the script exits with
\* an error, or the call times out) is retried before anything is reported:
\* after a first failed attempt the handler is still at its provisioning
\* call with no result yet, and the recorded period is kept.
C25_ProvisioningRetried ==
    [][\A r \in Reqs, o \in AddOutcomes \ {"ok"} :
         (/\ pc[r] = "provision"
          /\ ensure_vpn_username(loc[r].tg_id) \notin conf_files
          /\ Provision(r, o)) =>
            /\ pc'[r] = "provision"
            /\ loc'[r].result = "none"
            /\ subscriptions' = subscriptions]_vars

QueryCmds == {"myvpn", "get:conf", "get:qr"}

\* C26: the operations that do not grant (/status, /myvpn and the get:
\* callbacks, also when they provision again after a failed grant) insert
\* no subscription period, change none and change no promo code: retrying
\* the provisioning never charges or redeems again.
C26_QueriesDoNotGrant ==
    [][\A r \in Reqs :
         /\ \A t \in TgIds :
               (pc[r] = "done" /\
                (\/ cmd_status(r, t)
                 \/ cmd_myvpn(r, t)
                 \/ \E d \in {"get:conf", "get:qr"} : on_cb_get(r, t, d))) =>
                  (subscriptions' = subscriptions /\ promo_codes' = promo_codes)
         /\ (pc[r] = "provision" /\ loc[r].cmd \in QueryCmds /\ pc'[r] = "done") =>
               (subscriptions' = subscriptions /\ promo_codes' = promo_codes)]_vars

\* /myvpn or a get: callback is provisioning again for an identity whose
\* grant was recorded without client files
C26_Witness ==
    \E r \in Reqs :
        /\ pc[r] = "provision"
        /\ loc[r].cmd \in QueryCmds
        /\ ensure_vpn_username(loc[r].tg_id) \notin conf_files
        /\ \E p \in promo_codes : p.used_count > 0

\* C27: a subscription row, once inserted, is never deleted and keeps its
\* tg_id, start_ts, end_ts, plan, promo_code and tx_id (and its place in the
\* table): status is the only field any step of the user bot or of the
\* admin bot changes.
C27_RowsKeptStatusOnly ==
    [][/\ Len(subscriptions') >= Len(subscriptions)
       /\ \A i \in Ids :
             [subscriptions'[i] EXCEPT !.status = subscriptions[i].status]
                = subscriptions[i]]_vars

\* a period canceled before its end is still in the table with that end,
\* next to a later period of the identity
C27_Witness ==
    \E i, j \in Ids :
        /\ i < j
        /\ subscriptions[i].tg_id = subscriptions[j].tg_id
        /\ subscriptions[i].status = "canceled"
        /\ subscriptions[i].end_ts > now

\* C28: a payment grant is idempotent in its transaction reference: however
\* often the successful-payment update with one tx_id is delivered, at most
\* one subscription period carries that tx_id.
C28_OnePeriodPerTx ==
    \A i, j \in Ids :
        (subscriptions[i].tx_id # "" /\ subscriptions[i].tx_id = subscriptions[j].tx_id)
           => i = j

\* a row of code c at its cap, as db_consume_promo may fetch it
ExhaustedRow(c) ==
    {[code |-> c, duration_days |-> 1, max_uses |-> 1, used_count |-> 1]}

\* C29: /redeem with a code that does not exist yields an outcome the
\* caller can tell apart from that of an exhausted code, and changes neither
\* promo_codes nor subscriptions.
C29_NotFoundDistinct ==
    [][\A r \in Reqs, t \in TgIds, c \in Codes :
         (pc[r] = "done" /\ db_get_promo(c) = {} /\ RedeemSelect(r, t, c)) =>
            /\ pc'[r] = "done"
            /\ promo_codes' = promo_codes
            /\ subscriptions' = subscriptions
            /\ loc'[r].result # RejectReply(ExhaustedRow(c))]_vars

GrantCmds == {"redeem", "pay"}

\* C30: no store transaction is open across a call of the provisioning
\* script: while a grant is at its provisioning call the period it decided
\* on is already in the table, and the steps in which the script runs, for
\* a handler or for the sweep's revoke, write nothing to the store.
C30_PersistBeforeProvision ==
    [][/\ \A r \in Reqs :
             (pc'[r] = "provision" /\ loc'[r].cmd \in GrantCmds) =>
                \E i \in 1..Len(subscriptions') :
                   [subscriptions'[i] EXCEPT !.status = "active"] = NewSubRow(loc'[r])
       /\ \A r \in Reqs :
             (pc[r] = "provision" /\ pc'[r] = "done") => UNCHANGED store
       /\ (jpc = "revoke" /\ jpc' # "revoke") => UNCHANGED store
       /\ (jpc = "revoke" /\ victims' # victims) => UNCHANGED store]_vars

\* a grant and the sweep are both at a call of the script
C30_Witness ==
    /\ jpc = "revoke"
    /\ \E r \in Reqs : pc[r] = "provision" /\ loc[r].cmd \in GrantCmds

\* no handler is inside an operation, the job is idle and the admin bot has
\* finished its revoke
Quiescent ==
    /\ \A r \in Reqs : pc[r] = "done"
    /\ jpc = "idle"
    /\ apc = "idle"

\* C32: once all in-flight operations have finished, no identity is left
\* with its client config present and without an active period for a later
\* sweep to select it by, also when the provisioning call of a /myvpn, a
\* get: callback or a grant overlapped the sweep's revoke of the identity.
C32_NoOrphanAfterSweep ==
    Quiescent =>
        \A t \in TgIds :
            ensure_vpn_username(t) \in conf_files => ActiveIdsOf(t) # {}

\* C33: an admin revoke cancels only periods that existed when its script
\* ran: a period granted to the identity between the script's end and the
\* 'canceled' UPDATE is not among the rows that UPDATE touches, and once
\* everything has finished the identity is not provisioned with all of its
\* periods canceled.
C33_CancelSparesLaterGrant ==
    [][/\ \A r \in Reqs :
             (apc = "cancel" /\ pc[r] = "write" /\ loc[r].tg_id = a_tg
                /\ GrantWrite(r)) =>
                Len(subscriptions') \notin CancelIds(a_tg)'
       /\ Quiescent' =>
             \A t \in TgIds :
                (/\ ensure_vpn_username(t) \in conf_files'
                 /\ \E i \in 1..Len(subscriptions') : subscriptions'[i].tg_id = t)
                   => \E i \in 1..Len(subscriptions') :
                         /\ subscriptions'[i].tg_id = t
                         /\ subscriptions'[i].status # "canceled"]_vars

C31_IdentityKept ==
    [][/\ \A u \in users' : u.vpn_user = <<"u", u.tg_id>>
       /\ \A u, v \in users' :
             (u.vpn_user = v.vpn_user \/ u.tg_id = v.tg_id) => u = v
       /\ \A u \in users :
             \E v \in users' : [v EXCEPT !.tg_username = u.tg_username] = u]_vars

\* an identity created earlier has been upserted again since: by /start
\* with a username and by a grant, which has written its period
C31_Witness ==
    \E u, v \in users :
        /\ u.created_at < now
        /\ u.tg_username # ""
        /\ v.created_at < now
        /\ \E i \in Ids : /\ subscriptions[i].tg_id = v.tg_id
                          /\ subscriptions[i].created_at > v.created_at

\* C35: with PAY_TEST_ZERO off a plan-sourced period is created only by the
\* successful-payment handler for a payload that matches a known plan: a
\* rejected invoice (BadRequest), an unknown plan key and an unknown payload
\* end their handler without a grant; with PAY_TEST_ZERO on a rejected
\* invoice for a known plan grants that plan's duration_days to the chat,
\* with tx_id 'TEST-ZERO'.
C35_PlanPeriodsPaidFor ==
    [][/\ \A r \in Reqs, t \in TgIds, k \in BuyKeys, o \in InvoiceOutcomes :
             (pc[r] = "done" /\ try_send_invoice(r, t, k, o)) =>
                /\ UNCHANGED store
                /\ (~PAY_TEST_ZERO \/ k \notin DOMAIN PLANS \/ o # "badrequest")
                      => (pc'[r] = "done" /\ loc'[r].result # "none")
                /\ (PAY_TEST_ZERO /\ k \in DOMAIN PLANS /\ o = "badrequest")
                      => /\ pc'[r] = "grant"
                         /\ loc'[r].tg_id = t
                         /\ loc'[r].tx_id = "TEST-ZERO"
                         /\ loc'[r].plan_key = k
                         /\ loc'[r].duration_days = PLANS[k].duration_days
       /\ \A r \in Reqs, t \in TgIds, p \in Payloads, x \in TxIds :
             (pc[r] = "done" /\ PlanKeyOf(p) = {}
                /\ successful_payment_handler(r, t, p, x)) =>
                (pc'[r] = "done" /\ UNCHANGED store)
       /\ \A r \in Reqs :
             (pc[r] = "done" /\ pc'[r] = "grant" /\ loc'[r].cmd = "pay") =>
                \E p \in Payloads : loc'[r].plan_key \in PlanKeyOf(p)
       /\ Len(subscriptions') > Len(subscriptions) =>
             \E r \in Reqs :
                /\ pc[r] = "write"
                /\ GrantWrite(r)
                /\ LET new == subscriptions'[Len(subscriptions')]
                       base == IF loc[r].cur_active = {} THEN loc[r].now
                               ELSE (CHOOSE c \in loc[r].cur_active : TRUE).end_ts
                   IN /\ new.plan = loc[r].plan_key
                      /\ new.tx_id = loc[r].tx_id
                      /\ new.tg_id = loc[r].tg_id
                      /\ new.end_ts = base + loc[r].duration_days * DaySeconds
                      /\ (new.plan \in DOMAIN PLANS /\ ~PAY_TEST_ZERO) =>
                            (loc[r].cmd = "pay" /\ new.tx_id \in TxIds)
                      /\ (new.plan \in DOMAIN PLANS /\ new.tx_id \notin TxIds) =>
                            (PAY_TEST_ZERO /\ new.tx_id = "TEST-ZERO")]_vars

\* PAY_TEST_ZERO is off, identity 1 has paid for a plan and a later invoice
\* was rejected
C35_Witness ==
    /\ ~PAY_TEST_ZERO
    /\ \E r \in Reqs : loc[r].result = "payfail"
    /\ \E i \in Ids : /\ subscriptions[i].plan \in DOMAIN PLANS
                      /\ subscriptions[i].tx_id \in TxIds

\* C36: once the grants, /myvpn and get: callbacks of an identity have all
\* finished, however their provisioning calls overlapped, the identity's
\* expires_at file (if one was written) holds the end_ts of its current
\* active period, the greatest one, and not the end of a period that a
\* later grant has superseded.
C36_MarkerIsCurrentEnd ==
    (\A r \in Reqs : pc[r] = "done") =>
        \A t \in TgIds :
            expires_at[ensure_vpn_username(t)] # {} =>
                \A row \in db_get_active_sub(subscriptions, t, now) :
                    expires_at[ensure_vpn_username(t)] = {row.end_ts}

\* a private text message that is not a command
PlainTexts == {upd \in Updates : upd.kind = "message" /\ upd.command = ""}

\* C37: after a staff member has pressed Reply on ticket T, that staff
\* member's next private text message is appended to T as a 'staff'
\* message, the REPLY_AWAIT entry is removed and no ticket is created from
\* the message.
C37_ReplyTextGoesToTicket ==
    [][\A s \in ADMIN_IDS, upd \in PlainTexts :
         (/\ REPLY_AWAIT[s] # {}
          /\ REPLY_AWAIT[s] \subseteq 1..Len(tickets)
          /\ process_update(s, upd)) =>
            /\ \E T \in REPLY_AWAIT[s] :
                  messages' = Append(messages, [ticket_id |-> T, from_role |-> "staff",
                                                from_id |-> s])
            /\ REPLY_AWAIT'[s] = {}
            /\ Len(tickets') = Len(tickets)]_vars

\* the user's open tickets
OpenOf(uid) ==
    {i \in 1..Len(tickets) : tickets[i].tg_id = uid /\ tickets[i].status = "open"}

\* C38: a ticket's status only moves from 'open' to 'closed': no step
\* reopens a closed ticket, changes a ticket's owner or deletes a ticket. A
\* user's text message is appended to that user's most recently updated
\* open ticket when there is one and otherwise creates a new open ticket
\* with the text as its first message; no 'user' message is ever appended to
\* a closed ticket.
C38_TicketsCloseOnce ==
    [][/\ Len(tickets') >= Len(tickets)
       /\ \A i \in 1..Len(tickets) :
             /\ tickets'[i].tg_id = tickets[i].tg_id
             /\ tickets'[i].status # tickets[i].status =>
                   (tickets[i].status = "open" /\ tickets'[i].status = "closed")
       /\ \A i \in (Len(tickets) + 1)..Len(tickets') : tickets'[i].status = "open"
       /\ \A uid \in SupportUsers, upd \in PlainTexts :
             (Dispatch(upd) = {"on_user_message"} /\ on_user_message(uid, upd)) =>
                IF OpenOf(uid) # {}
                THEN /\ \E i \in OpenOf(uid) :
                          /\ \A j \in OpenOf(uid) :
                                tickets[j].updated_at <= tickets[i].updated_at
                          /\ messages' = Append(messages, [ticket_id |-> i,
                                               from_role |-> "user", from_id |-> uid])
                     /\ Len(tickets') = Len(tickets)
                ELSE /\ tickets' = Append(tickets, [tg_id |-> uid, status |-> "open",
                                                    updated_at |-> now])
                     /\ messages' = Append(messages, [ticket_id |-> Len(tickets'),
                                          from_role |-> "user", from_id |-> uid])
       /\ (/\ Len(messages') > Len(messages)
           /\ messages'[Len(messages')].from_role = "user") =>
             LET t == messages'[Len(messages')].ticket_id IN
             /\ tickets'[t].status = "open"
             /\ t <= Len(tickets) => tickets[t].status = "open"]_vars

\* the user's ticket was closed and a later text of the user has opened a
\* new one
C38_Witness ==
    \E i, j \in 1..Len(tickets) :
        /\ i < j
        /\ tickets[i].tg_id = tickets[j].tg_id
        /\ tickets[i].status = "closed"
        /\ tickets[j].status = "open"
        /\ tickets[j].updated_at > tickets[i].updated_at
        /\ \E m \in 1..Len(messages) :
              messages[m].ticket_id = j /\ messages[m].from_role = "user"
====
